---------------------------- MODULE Spec2Model ----------------------------
(***************************************************************************)
(* The nginx helper server (ext/nginx/HelperServer.cpp): a main thread     *)
(* that receives the password over the admin pipe, constructs the Server   *)
(* (application pool, listening Unix socket), starts 4 * maxPoolSize       *)
(* Client threads and blocks on the admin pipe; and the Client threads,    *)
(* each looping accept -> handleRequest -> close.                          *)
(*                                                                         *)
(* A byte is a string token.  Protocol keywords (a header name, "CRLF",    *)
(* a literal line of the 500 response) are single tokens; payload bytes    *)
(* are distinct tokens so that loss, duplication and reordering show.      *)
(***************************************************************************)
EXTENDS Integers, Sequences, FiniteSets, TLC

(***************************************************************************)
(* Bounds of the model.                                                    *)
(***************************************************************************)
\* The values argv[5] (maxPoolSize) is drawn from.
PoolSizeArgs == {0, 1}
\* The connections the front end makes during one run of the process.
FrontEndConnections == {"c1"}
\* HELPER_SERVER_PASSWORD_SIZE, scaled (64 in the source).
HELPER_SERVER_PASSWORD_SIZE == 2
\* sizeof(buf) of readAndParseRequestHeaders and sendRequestBody, scaled
\* (1024 * 16 in the source).
RequestBufSize == 3
\* sizeof(buf) of forwardResponse, scaled (1024 * 32 in the source).
ResponseBufSize == 3
\* The frame parser's limit on the header length, scaled (128 KiB).
ScgiMaxHeaderSize == 12

\* numberOfThreads = maxPoolSize * 4
ThreadsPerPoolSlot == 4

MaxThreads == ThreadsPerPoolSlot * (CHOOSE m \in PoolSizeArgs : \A k \in PoolSizeArgs : k <= m)
ClientNumbers == 1..MaxThreads

(***************************************************************************)
(* Sequences of bytes.                                                     *)
(***************************************************************************)
Min(a, b) == IF a < b THEN a ELSE b

Take(s, n) == SubSeq(s, 1, Min(n, Len(s)))

Drop(s, n) == SubSeq(s, n + 1, Len(s))

IsPrefix(s, t) == Len(s) <= Len(t) /\ s = SubSeq(t, 1, Len(s))

Range(s) == {s[i] : i \in DOMAIN s}

RECURSIVE Flatten(_)
Flatten(ss) == IF ss = <<>> THEN <<>> ELSE Head(ss) \o Flatten(Tail(ss))

(***************************************************************************)
(* Decimal conversions: atol() and toString().                             *)
(***************************************************************************)
DigitChars == <<"0", "1", "2", "3", "4", "5", "6", "7", "8", "9">>

IsDigit(c) == c \in Range(DigitChars)

DigitValue(c) == (CHOOSE i \in DOMAIN DigitChars : DigitChars[i] = c) - 1

\* atol: the value of the leading decimal digits, 0 when there are none.
RECURSIVE AtolFrom(_, _)
AtolFrom(s, acc) ==
    IF s = <<>> \/ ~IsDigit(Head(s)) THEN acc
    ELSE AtolFrom(Tail(s), acc * 10 + DigitValue(Head(s)))

atol(s) == AtolFrom(s, 0)

\* toString of a non-negative number: its decimal digits.
RECURSIVE toString(_)
toString(n) ==
    IF n < 10 THEN <<DigitChars[n + 1]>>
    ELSE toString(n \div 10) \o <<DigitChars[(n % 10) + 1]>>

(***************************************************************************)
(* ScgiRequestParser (ScgiRequestParser.h), as section 4.2 describes it:   *)
(*   <decimal length> ':' <key> NUL <value> NUL ... ','                    *)
(***************************************************************************)
NUL == "NUL"

ScgiRequestParser ==
    [state |-> "READ_LENGTH", lengthStr |-> <<>>, remaining |-> 0, headerData |-> <<>>]

\* The blob split on NUL: the fields, each ended by a NUL.  Bytes after the
\* last NUL form an unterminated field, returned as "rest".
RECURSIVE SplitOnNul(_, _, _)
SplitOnNul(s, cur, acc) ==
    IF s = <<>> THEN [fields |-> acc, rest |-> cur]
    ELSE IF Head(s) = NUL THEN SplitOnNul(Tail(s), <<>>, Append(acc, cur))
    ELSE SplitOnNul(Tail(s), Append(cur, Head(s)), acc)

HeaderFields(blob) == SplitOnNul(blob, <<>>, <<>>)

\* Every field is NUL-terminated and keys alternate with values.
WellFormedHeader(blob) ==
    LET f == HeaderFields(blob)
    IN  f.rest = <<>> /\ Len(f.fields) % 2 = 0

ParserAcceptingInput(p) == p.state \notin {"DONE", "ERROR"}

ParserFeedByte(p, b) ==
    CASE p.state = "READ_LENGTH" ->
            IF IsDigit(b)
            THEN IF p.lengthStr = <<"0">> \/ atol(Append(p.lengthStr, b)) > ScgiMaxHeaderSize
                 THEN [p EXCEPT !.state = "ERROR"]
                 ELSE [p EXCEPT !.lengthStr = Append(@, b)]
            ELSE IF b = ":" /\ p.lengthStr # <<>>
            THEN IF atol(p.lengthStr) = 0
                 THEN [p EXCEPT !.state = "EXPECT_COMMA"]
                 ELSE [p EXCEPT !.state = "READ_HEADER", !.remaining = atol(p.lengthStr)]
            ELSE [p EXCEPT !.state = "ERROR"]
      [] p.state = "READ_HEADER" ->
            [p EXCEPT !.headerData = Append(@, b),
                      !.remaining = @ - 1,
                      !.state = IF p.remaining = 1 THEN "EXPECT_COMMA" ELSE "READ_HEADER"]
      [] p.state = "EXPECT_COMMA" ->
            IF b = "," /\ WellFormedHeader(p.headerData)
            THEN [p EXCEPT !.state = "DONE"]
            ELSE [p EXCEPT !.state = "ERROR"]
      [] OTHER -> p

\* feed(buf, size): consumes bytes while the parser accepts input; the
\* result is the parser and the count of bytes consumed from buf.
RECURSIVE ParserFeedFrom(_, _, _)
ParserFeedFrom(p, buf, n) ==
    IF buf = <<>> \/ ~ParserAcceptingInput(p) THEN [parser |-> p, accepted |-> n]
    ELSE ParserFeedFrom(ParserFeedByte(p, Head(buf)), Tail(buf), n + 1)

ParserFeed(p, buf) == ParserFeedFrom(p, buf, 0)

\* header(name): the value after the first field equal to name at a key
\* position; empty when absent.  A header name is one token.
RECURSIVE LookupHeader(_, _)
LookupHeader(fields, name) ==
    IF Len(fields) < 2 THEN [found |-> FALSE, value |-> <<>>]
    ELSE IF fields[1] = <<name>> THEN [found |-> TRUE, value |-> fields[2]]
    ELSE LookupHeader(Tail(Tail(fields)), name)

ParserHasHeader(p, name) == LookupHeader(HeaderFields(p.headerData).fields, name).found

ParserGetHeader(p, name) == LookupHeader(HeaderFields(p.headerData).fields, name).value

(***************************************************************************)
(* HttpStatusExtractor (HttpStatusExtractor.h), as section 4.3 describes   *)
(* it.  "CRLF" is one token; two in a row end the header block.            *)
(***************************************************************************)
CRLF == "CRLF"

StatusHeaderName == "Status: "

HttpStatusExtractor ==
    [buffer |-> <<>>, fullHeaderReceived |-> FALSE, statusLine |-> <<"200 OK", CRLF>>]

HasHeaderEnd(buf) == \E i \in 1..(Len(buf) - 1) : buf[i] = CRLF /\ buf[i + 1] = CRLF

\* The positions of a Status header name at the start of a line whose
\* line is complete.
StatusStarts(buf) ==
    {i \in DOMAIN buf :
        /\ buf[i] = StatusHeaderName
        /\ (i = 1 \/ buf[i - 1] = CRLF)
        /\ \E j \in (i + 1)..Len(buf) : buf[j] = CRLF}

ExtractStatusLine(buf) ==
    LET i == CHOOSE k \in StatusStarts(buf) : \A m \in StatusStarts(buf) : k <= m
        j == CHOOSE k \in (i + 1)..Len(buf) :
                 buf[k] = CRLF /\ \A m \in (i + 1)..(k - 1) : buf[m] # CRLF
    IN  SubSeq(buf, i + 1, j)

\* feed(data, size): appends to the buffer; true once the header block has
\* ended, with the status line taken from the Status header if there is one.
ExtractorFeed(ex, data) ==
    IF ex.fullHeaderReceived THEN ex
    ELSE LET buf == ex.buffer \o data
         IN  IF HasHeaderEnd(buf)
             THEN [buffer |-> buf, fullHeaderReceived |-> TRUE,
                   statusLine |-> IF StatusStarts(buf) # {}
                                  THEN ExtractStatusLine(buf)
                                  ELSE ex.statusLine]
             ELSE [ex EXCEPT !.buffer = buf]

(***************************************************************************)
(* The environment's inputs: what the parent writes to the admin pipe,     *)
(* what the front end sends on a connection, what a backend answers.       *)
(***************************************************************************)
Secret == [i \in 1..HELPER_SERVER_PASSWORD_SIZE |-> "s"]

\* The parent's first writes on the admin pipe: the whole secret, or less.
AdminInputs == {Secret, Take(Secret, HELPER_SERVER_PASSWORD_SIZE - 1), <<>>}

WrongLastByte == [Secret EXCEPT ![HELPER_SERVER_PASSWORD_SIZE] = "x"]

WrongFirstByte == [Secret EXCEPT ![1] = "x"]

FrameNoBody == <<"4", ":", "DOCUMENT_ROOT", NUL, "/r", NUL, ",">>

FrameWithLength(cl) ==
    <<"8", ":", "DOCUMENT_ROOT", NUL, "/r", NUL, "CONTENT_LENGTH", NUL>>
        \o cl \o <<NUL, ",">>

FrameNoDocumentRoot == <<"4", ":", "CONTENT_LENGTH", NUL, "1", NUL, ",">>

FrameNoComma == <<"4", ":", "DOCUMENT_ROOT", NUL, "/r", NUL, ";">>

FrameNoNul == <<"3", ":", "DOCUMENT_ROOT", NUL, "/r", ",">>

FrameBadLength == <<"0", "4", ":", "DOCUMENT_ROOT", NUL, "/r", NUL, ",">>

FrameTooLong == <<"1", "3", ":">>

FrameTruncated == <<"4", ":", "DOCUMENT_ROOT", NUL>>

BodyBytes == <<"b1", "b2", "b3">>

\* The CONTENT_LENGTH values sent, as strings.
ContentLengths == {<<"0">>, <<"1">>, <<"2">>, <<"zz">>}

ClientStreams ==
    {<<>>, Take(Secret, HELPER_SERVER_PASSWORD_SIZE - 1)}
    \cup {pw \o FrameNoBody : pw \in {WrongLastByte, WrongFirstByte}}
    \cup {Secret \o f : f \in {<<>>, FrameNoBody, FrameNoDocumentRoot, FrameNoComma,
                               FrameNoNul, FrameBadLength, FrameTooLong,
                               FrameTruncated}}
    \cup {Secret \o FrameWithLength(cl) \o Take(BodyBytes, n) :
              cl \in ContentLengths, n \in 0..Len(BodyBytes)}

\* Backend responses: with a Status header, without one, without the end
\* of the header block, and empty.
BackendResponses ==
    { <<StatusHeaderName, "404 Not Found", CRLF, CRLF, "r1", "r2">>,
      <<"X-Powered-By: p", CRLF, StatusHeaderName, "302 Found", CRLF, CRLF>>,
      <<"Content-Type: t", CRLF, CRLF, "r1">>,
      <<"Content-Type: t", CRLF, "r1">>,
      <<>> }

\* SpawnException: a message and, optionally, an HTML error page.
SpawnExceptions ==
    { [hasErrorPage |-> TRUE,  errorPage |-> <<"<h1>", "oops", "</h1>">>, what |-> <<"m1">>],
      [hasErrorPage |-> TRUE,  errorPage |-> <<>>, what |-> <<"m1">>],
      [hasErrorPage |-> FALSE, errorPage |-> <<>>, what |-> <<"m1", "m2">>] }

\* All of them: what one connection is checked against.
RequestInputs ==
    [streams |-> ClientStreams,
     responses |-> BackendResponses,
     spawnExceptions |-> SpawnExceptions]

\* A few of them, one per way a request can go: what the connections are
\* drawn from when the whole process, shutdown included, is explored.
ProcessInputs ==
    [streams |-> {WrongLastByte \o FrameNoBody,
                  Secret \o FrameTruncated,
                  Secret \o FrameWithLength(<<"2">>) \o Take(BodyBytes, 2)},
     responses |-> {<<StatusHeaderName, "404 Not Found", CRLF, CRLF, "r1", "r2">>},
     spawnExceptions |-> {[hasErrorPage |-> FALSE, errorPage |-> <<>>, what |-> <<"m1">>]}]

(***************************************************************************)
(* State.                                                                  *)
(***************************************************************************)
VARIABLES
    mainPc,          \* where the main thread is
    exitCode,        \* main's return value; -1 while it has not returned
    abortCause,      \* "none", or the step whose exception reached abort()
    maxPoolSize,     \* argv[5]
    adminIn,         \* bytes the parent wrote on the admin pipe at startup
    adminSignal,     \* what the 1-byte admin-pipe read will return
    password,        \* Server::password
    pool,            \* Server::pool
    serverSocket,    \* the listening socket
    listenFailure,   \* the system call of startListening that failed, or "none"
    closes,          \* close() calls on serverSocket and adminPipe
    numberOfThreads, \* Server::numberOfThreads
    clients,         \* Server::clients, by Client number
    joining,         \* the Client whose destructor main is in; 0 if none
    connections,     \* the front end's connections accepted so far
    client           \* per Client thread: its position and request state

vars == <<mainPc, exitCode, abortCause, maxPoolSize, adminIn, adminSignal,
          password, pool, serverSocket, listenFailure, closes, numberOfThreads,
          clients, joining, connections, client>>

mainVars == <<mainPc, exitCode, maxPoolSize, adminIn, password, pool,
              serverSocket, listenFailure, closes, numberOfThreads, clients, joining>>

Running == exitCode = -1 /\ abortCause = "none"

(***************************************************************************)
(* FileDescriptor: a shared_ptr<SharedData>; ~SharedData closes the fd.    *)
(***************************************************************************)
NoFd == [valid |-> FALSE, refs |-> 0, closes |-> 0, usedClosed |-> FALSE]

\* FileDescriptor(int fd)
NewFileDescriptor == [valid |-> TRUE, refs |-> 1, closes |-> 0, usedClosed |-> FALSE]

\* The copy constructor: one more holder of the SharedData.
CopyFileDescriptor(f) == [f EXCEPT !.refs = @ + 1]

\* A destructor that closes the fd whichever holder is destroyed.
DestroyFileDescriptorNoCount(f) ==
    IF f.refs = 0 THEN f
    ELSE [f EXCEPT !.refs = @ - 1, !.closes = @ + 1]

\* The destructor: the last holder destroys the SharedData, which closes.
DestroyFileDescriptor(f) ==
    IF f.refs = 0 THEN f
    ELSE [f EXCEPT !.refs = @ - 1,
                   !.closes = IF f.refs = 1 THEN @ + 1 ELSE @]

\* operator int(), handed to a system call.
UseFileDescriptor(f) ==
    [f EXCEPT !.usedClosed = @ \/ f.closes > 0 \/ f.refs = 0]

\* FileDescriptor fd(acceptConnection()): the temporary that
\* acceptConnection returns is copied into fd and then destroyed.
AcceptedFileDescriptor ==
    DestroyFileDescriptor(CopyFileDescriptor(NewFileDescriptor))

(***************************************************************************)
(* A Client thread's state: pc, the interruption request, and the locals   *)
(* of threadMain, handleRequest and the functions it calls.                *)
(***************************************************************************)
NoSpawnException == [hasErrorPage |-> FALSE, errorPage |-> <<>>, what |-> <<>>]

NoRequest ==
    [fd |-> NoFd,
     in |-> <<>>, pos |-> 0, out |-> <<>>,
     parser |-> ScgiRequestParser, partialRequestBody |-> <<>>, frameEnd |-> 0,
     poolGets |-> 0, session |-> "none", sessionOps |-> <<>>,
     sentHeaders |-> <<>>, sentBody |-> <<>>,
     response |-> <<>>, rpos |-> 0, eofReads |-> 0,
     contentLength |-> 0, bytesForwarded |-> 0,
     ex |-> HttpStatusExtractor, spawnException |-> NoSpawnException,
     caught |-> "none", result |-> "none"]

\* A Client thread: its position, whether its interruption is requested,
\* the members the constructor set (number, password, serverSocket, pool:
\* the last two as the Server's were when they were passed), and the
\* request at hand.
NoThread ==
    [pc |-> "none", interrupted |-> FALSE,
     number |-> 0, password |-> <<>>, serverSocket |-> "none", pool |-> "none",
     req |-> NoRequest]

\* The operations on the session seen so far, repeats of one operation
\* counted once.
LogOp(ops, op) ==
    IF ops # <<>> /\ ops[Len(ops)] = op THEN ops ELSE Append(ops, op)

Avail(r) == Len(r.in) - r.pos

ClientRead(r, n) == SubSeq(r.in, r.pos + 1, r.pos + n)

\* What a failed writeRaw may have written of data: any proper prefix.
PartialWrites(data) == {Take(data, k) : k \in 0..(Len(data) - 1)}

Set(w, thread) ==
    /\ client' = [client EXCEPT ![w] = thread]
    /\ UNCHANGED <<mainVars, adminSignal, abortCause, connections>>

\* handleRequest returns (true or false: threadMain ignores which), with
\* the session, if any, out of scope.
Return(t, r, result) ==
    [t EXCEPT !.pc = "handled",
              !.req = [r EXCEPT !.result = result,
                                !.session = IF r.session = "open" THEN "released" ELSE @]]

\* An exception that leaves the while loop of threadMain for abort(): the
\* loop's fd goes out of scope on the way, and abort() ends the process
\* with all its threads.
Abort(w, r, cause) ==
    /\ client' = [v \in ClientNumbers |->
                     IF v = w
                     THEN [NoThread EXCEPT
                           !.pc = "aborted", !.interrupted = client[w].interrupted,
                           !.req = [NoRequest EXCEPT !.fd = DestroyFileDescriptor(r.fd),
                                                     !.result = "exception"]]
                     ELSE IF client[v].pc = "none" THEN NoThread
                     ELSE [NoThread EXCEPT !.pc = "killed"]]
    /\ abortCause' = cause
    /\ UNCHANGED <<mainVars, adminSignal, connections>>

(***************************************************************************)
(* Exceptions.  handleRequest's try block spans lines 378-404: the         *)
(* password and header reads come before it.                               *)
(***************************************************************************)
InTryBlock(pc) ==
    pc \in {"checkout", "sendHeaders", "sendRequestBody", "readBody",
            "shutdownWriter", "forwardStatus", "forwardRest", "spawnException"}

\* Catch clauses that let no exception through.
CatchEverything(e) == "return true"

\* The catch clauses of handleRequest.
CatchInHandleRequest(e) ==
    IF e = "thread_interrupted" THEN "rethrow" ELSE "return true"

\* The catch clauses of threadMain.
CatchInThreadMain(e) ==
    IF e = "thread_interrupted" THEN "leave" ELSE "abort"

\* What stack unwinding out of threadMain's loop leaves of the request.
Unwound(r) ==
    [NoRequest EXCEPT !.fd = DestroyFileDescriptor(r.fd),
                      !.session = IF r.session = "open" THEN "released" ELSE r.session,
                      !.result = "interrupted"]

\* Exception e thrown by Client w at its current step, the request being r.
Throw(w, r, e) ==
    LET t == client[w]
    IN  IF InTryBlock(t.pc) /\ CatchInHandleRequest(e) = "return true"
        THEN Set(w, Return(t, [r EXCEPT !.caught = e], "exception"))
        ELSE IF CatchInThreadMain(e) = "leave"
        THEN Set(w, [t EXCEPT !.pc = "exited", !.req = Unwound(r)])
        ELSE Abort(w, r, t.pc)

(***************************************************************************)
(* Client::threadMain and what it calls.                                   *)
(***************************************************************************)
\* acceptConnection: accept() returned a connection; s is what the front
\* end will send on it.
acceptConnection(w, streams) ==
    /\ Running
    /\ client[w].pc = "accept"
    /\ serverSocket = "listening"
    /\ \E c \in FrontEndConnections \ connections : connections' = connections \cup {c}
    /\ \E s \in streams :
          client' = [client EXCEPT ![w].pc = "password",
                                   ![w].req = [NoRequest EXCEPT !.fd = AcceptedFileDescriptor,
                                                                !.in = s]]
    /\ UNCHANGED <<mainVars, adminSignal, abortCause>>

\* acceptConnection: accept() returned -1.
acceptFails(w) ==
    /\ Running
    /\ client[w].pc = "accept"
    /\ Throw(w, client[w].req, "SystemException")

\* A blocking call of Client w is interrupted: oxt throws
\* boost::thread_interrupted out of it.
threadInterrupted(w) ==
    /\ Running
    /\ client[w].interrupted
    /\ client[w].pc \in {"accept", "password", "headers", "checkout", "sendHeaders",
                         "sendRequestBody", "readBody", "forwardStatus", "forwardRest",
                         "spawnException"}
    /\ Throw(w, client[w].req, "thread_interrupted")

\* MessageChannel::readRaw(buf, size) on the stream `in` read up to pos:
\* all size bytes, or false at end-of-stream.
ReadRaw(in, pos, size) ==
    IF Len(in) - pos >= size
    THEN [ok |-> TRUE, data |-> SubSeq(in, pos + 1, pos + size), pos |-> pos + size]
    ELSE [ok |-> FALSE, data |-> <<>>, pos |-> Len(in)]

\* A comparison that stops after the first byte.
PasswordMatchesFirstByte(pw, buf) == pw[1] = buf[1]

\* memcmp(password_data, buf, sizeof(buf)) == 0
PasswordMatches(pw, buf) ==
    \A i \in 1..HELPER_SERVER_PASSWORD_SIZE : pw[i] = buf[i]

readAndCheckPassword(w) ==
    LET t  == client[w]
        r  == t.req
        rd == ReadRaw(r.in, r.pos, HELPER_SERVER_PASSWORD_SIZE)
        r1 == [r EXCEPT !.fd = UseFileDescriptor(@), !.pos = rd.pos]
    IN  /\ Running
        /\ t.pc = "password"
        /\ IF rd.ok /\ PasswordMatches(t.password, rd.data)
           THEN Set(w, [t EXCEPT !.pc = "headers", !.req = r1])
           ELSE Set(w, Return(t, r1, "badPassword"))

\* requestBody.assign(buf + accepted, size - accepted)
PartialRequestBody(buf, accepted) == Drop(buf, accepted)

\* The checks without the one for DOCUMENT_ROOT.
HeaderCheckStateOnly(parser) ==
    IF parser.state # "DONE" THEN "invalidHeader" ELSE "ok"

\* The checks of readAndParseRequestHeaders after its loop.
HeaderCheck(parser) ==
    IF parser.state # "DONE" THEN "invalidHeader"
    ELSE IF ~ParserHasHeader(parser, "DOCUMENT_ROOT") THEN "noDocumentRoot"
    ELSE "ok"

\* One iteration of the read loop of readAndParseRequestHeaders and, when
\* the loop ends with it, the checks after the loop.
readAndParseRequestHeaders(w) ==
    LET t == client[w]
        r == [t.req EXCEPT !.fd = UseFileDescriptor(@)]
    IN  /\ Running
        /\ t.pc = "headers"
        /\ \/ Throw(w, r, "SystemException")                       \* size == -1
           \/ /\ Avail(r) = 0                                      \* size == 0
              /\ IF HeaderCheck(r.parser) = "ok"
                 THEN Set(w, [t EXCEPT !.pc = "checkout", !.req = r])
                 ELSE Set(w, Return(t, r, HeaderCheck(r.parser)))
           \/ \E size \in 1..Min(RequestBufSize, Avail(r)) :
                 LET buf == ClientRead(r, size)
                     fed == ParserFeed(r.parser, buf)
                     r1  == [r EXCEPT !.pos = @ + size, !.parser = fed.parser]
                 IN  IF ParserAcceptingInput(fed.parser)
                     THEN Set(w, [t EXCEPT !.req = r1])
                     ELSE IF HeaderCheck(fed.parser) # "ok"
                     THEN Set(w, Return(t, r1, HeaderCheck(fed.parser)))
                     ELSE Set(w, [t EXCEPT
                              !.pc = "checkout",
                              !.req = [r1 EXCEPT
                                  !.partialRequestBody = PartialRequestBody(buf, fed.accepted),
                                  !.frameEnd = r.pos + fed.accepted]])

\* pool->get(options): a session, a SpawnException, or another exception.
poolGet(w, responses, spawnExceptions) ==
    LET t == client[w]
        r == [t.req EXCEPT !.poolGets = @ + 1]
    IN  /\ Running
        /\ t.pc = "checkout"
        /\ pool = "alive"
        /\ \/ \E resp \in responses :
                 Set(w, [t EXCEPT !.pc = "sendHeaders",
                                  !.req = [r EXCEPT !.session = "open", !.response = resp]])
           \/ \E e \in spawnExceptions :
                 Set(w, [t EXCEPT !.pc = "spawnException",
                                  !.req = [r EXCEPT !.spawnException = e]])
           \/ Throw(w, r, "IOException")

\* session->sendHeaders(parser.getHeaderData()), then contentLength.
sendHeaders(w) ==
    LET t == client[w]
        r == t.req
    IN  /\ Running
        /\ t.pc = "sendHeaders"
        /\ \/ Set(w, [t EXCEPT
                 !.pc = "sendRequestBody",
                 !.req = [r EXCEPT
                     !.sentHeaders = Append(@, r.parser.headerData),
                     !.sessionOps = LogOp(@, "sendHeaders"),
                     !.contentLength = atol(ParserGetHeader(r.parser, "CONTENT_LENGTH"))]])
           \/ Throw(w, r, "SystemException")

\* bytesToRead without the remaining length: always sizeof(buf).
BytesToReadWholeBuffer(contentLength, bytesForwarded) == RequestBufSize

\* bytesToRead of sendRequestBody: contentLength - bytesForwarded in
\* unsigned long arithmetic (a negative difference wraps to a number far
\* above sizeof(buf)), capped at sizeof(buf).
BytesToRead(contentLength, bytesForwarded) ==
    IF contentLength - bytesForwarded < 0
       \/ contentLength - bytesForwarded > RequestBufSize
    THEN RequestBufSize
    ELSE contentLength - bytesForwarded

\* sendRequestBody up to its loop: the partial request body goes first.
sendRequestBody(w) ==
    LET t  == client[w]
        r  == t.req
        r1 == IF Len(r.partialRequestBody) > 0
              THEN [r EXCEPT !.sentBody = @ \o r.partialRequestBody,
                             !.sessionOps = LogOp(@, "sendBodyBlock"),
                             !.bytesForwarded = Len(r.partialRequestBody)]
              ELSE r
    IN  /\ Running
        /\ t.pc = "sendRequestBody"
        /\ \/ Set(w, [t EXCEPT !.pc = IF r1.bytesForwarded = r1.contentLength
                                      THEN "shutdownWriter" ELSE "readBody",
                               !.req = r1])
           \/ /\ Len(r.partialRequestBody) > 0
              /\ Throw(w, r, "SystemException")

\* The loop of sendRequestBody with end-of-stream thrown as an error.
readBodyEofThrows(w) ==
    LET t == client[w]
        r == [t.req EXCEPT !.fd = UseFileDescriptor(@)]
        bytesToRead == BytesToRead(r.contentLength, r.bytesForwarded)
    IN  /\ Running
        /\ t.pc = "readBody"
        /\ \/ Throw(w, r, "SystemException")
           \/ /\ Avail(r) = 0
              /\ Throw(w, r, "IOException")
           \/ \E size \in 1..Min(bytesToRead, Avail(r)) :
                 LET r2 == [r EXCEPT !.pos = @ + size,
                                     !.sentBody = @ \o ClientRead(r, size),
                                     !.sessionOps = LogOp(@, "sendBodyBlock"),
                                     !.bytesForwarded = @ + size]
                 IN  Set(w, [t EXCEPT
                         !.pc = IF r2.bytesForwarded = r2.contentLength
                                THEN "shutdownWriter" ELSE "readBody",
                         !.req = r2])

\* One iteration of the loop of sendRequestBody.
readBody(w) ==
    LET t == client[w]
        r == [t.req EXCEPT !.fd = UseFileDescriptor(@)]
        bytesToRead == BytesToRead(r.contentLength, r.bytesForwarded)
    IN  /\ Running
        /\ t.pc = "readBody"
        /\ \/ Throw(w, r, "SystemException")                       \* size == -1
           \/ /\ Avail(r) = 0                                      \* size == 0
              /\ Set(w, [t EXCEPT !.pc = "shutdownWriter", !.req = r])
           \/ \E size \in 1..Min(bytesToRead, Avail(r)) :
                 LET r1 == [r EXCEPT !.pos = @ + size]
                     r2 == [r1 EXCEPT !.sentBody = @ \o ClientRead(r, size),
                                      !.sessionOps = LogOp(@, "sendBodyBlock"),
                                      !.bytesForwarded = @ + size]
                 IN  \/ Set(w, [t EXCEPT
                           !.pc = IF r2.bytesForwarded = r2.contentLength
                                  THEN "shutdownWriter" ELSE "readBody",
                           !.req = r2])
                     \/ Throw(w, r1, "SystemException")            \* sendBodyBlock

\* handleRequest going from sendRequestBody to forwardResponse without
\* session->shutdownWriter().
shutdownWriterSkipped(w) ==
    LET t == client[w]
    IN  /\ Running
        /\ t.pc = "shutdownWriter"
        /\ Set(w, [t EXCEPT !.pc = "forwardStatus"])

\* session->shutdownWriter()
shutdownWriter(w) ==
    LET t == client[w]
    IN  /\ Running
        /\ t.pc = "shutdownWriter"
        /\ Set(w, [t EXCEPT !.pc = "forwardStatus",
                            !.req.sessionOps = LogOp(@, "shutdownWriter")])

\* The status line forwardResponse writes: "HTTP/1.1 " and getStatusLine().
StatusLine(ex) == <<"HTTP/1.1 ">> \o ex.statusLine

\* The status line without the extractor's buffer.
StatusLineOnly(ex) == <<"HTTP/1.1 ">> \o ex.statusLine

\* What forwardResponse writes once the status line is known: the status
\* line, then the extractor's buffer.
StatusLineAndBuffer(ex) == StatusLine(ex) \o ex.buffer

\* output.writeRaw(data) on the client's socket: all of data, or an error
\* after a part of it.
WriteRaw(w, r, data, next) ==
    LET t  == client[w]
        r1 == [r EXCEPT !.fd = UseFileDescriptor(@)]
    IN  \/ Set(w, [t EXCEPT !.pc = next, !.req = [r1 EXCEPT !.out = @ \o data]])
        \/ \E part \in PartialWrites(data) :
              Throw(w, [r1 EXCEPT !.out = @ \o part], "SystemException")

\* A first loop that answers the backend's end-of-stream as it answers
\* the status line: writes the status line and the buffer and goes on to
\* the second loop.
forwardStatusAtEof(w) ==
    LET t == client[w]
        r == [t.req EXCEPT !.sessionOps = LogOp(@, "read")]
    IN  /\ Running
        /\ t.pc = "forwardStatus"
        /\ \/ Throw(w, r, "SystemException")
           \/ /\ r.rpos = Len(r.response)
              /\ WriteRaw(w, [r EXCEPT !.eofReads = @ + 1],
                          StatusLineAndBuffer(r.ex), "forwardRest")
           \/ \E size \in 1..Min(ResponseBufSize, Len(r.response) - r.rpos) :
                 LET ex == ExtractorFeed(r.ex, SubSeq(r.response, r.rpos + 1, r.rpos + size))
                     r1 == [r EXCEPT !.rpos = @ + size, !.ex = ex]
                 IN  IF ex.fullHeaderReceived
                     THEN WriteRaw(w, r1, StatusLineAndBuffer(ex), "forwardRest")
                     ELSE Set(w, [t EXCEPT !.req = r1])

\* One iteration of the first loop of forwardResponse.
forwardStatus(w) ==
    LET t == client[w]
        r == [t.req EXCEPT !.sessionOps = LogOp(@, "read")]
    IN  /\ Running
        /\ t.pc = "forwardStatus"
        /\ \/ Throw(w, r, "SystemException")                       \* size == -1
           \/ /\ r.rpos = Len(r.response)                          \* size == 0
              /\ Set(w, Return(t, [r EXCEPT !.eofReads = @ + 1], "completed"))
           \/ \E size \in 1..Min(ResponseBufSize, Len(r.response) - r.rpos) :
                 LET ex == ExtractorFeed(r.ex, SubSeq(r.response, r.rpos + 1, r.rpos + size))
                     r1 == [r EXCEPT !.rpos = @ + size, !.ex = ex]
                 IN  IF ex.fullHeaderReceived
                     THEN WriteRaw(w, r1, StatusLineAndBuffer(ex), "forwardRest")
                     ELSE Set(w, [t EXCEPT !.req = r1])

\* A second loop that treats every chunk as the first loop does: feeds
\* it to the extractor and writes a status line before it.
forwardRestAsFirstLoop(w) ==
    LET t == client[w]
        r == [t.req EXCEPT !.sessionOps = LogOp(@, "read")]
    IN  /\ Running
        /\ t.pc = "forwardRest"
        /\ \/ Throw(w, r, "SystemException")
           \/ /\ r.rpos = Len(r.response)
              /\ Set(w, Return(t, r, "completed"))
           \/ \E size \in 1..Min(ResponseBufSize, Len(r.response) - r.rpos) :
                 LET chunk == SubSeq(r.response, r.rpos + 1, r.rpos + size)
                     ex    == ExtractorFeed(r.ex, chunk)
                 IN  WriteRaw(w, [r EXCEPT !.rpos = @ + size, !.ex = ex],
                              StatusLine(ex) \o chunk, "forwardRest")

\* One iteration of the second loop of forwardResponse.
forwardRest(w) ==
    LET t == client[w]
        r == [t.req EXCEPT !.sessionOps = LogOp(@, "read")]
    IN  /\ Running
        /\ t.pc = "forwardRest"
        /\ \/ Throw(w, r, "SystemException")                       \* size == -1
           \/ /\ r.rpos = Len(r.response)                          \* size == 0
              /\ Set(w, Return(t, [r EXCEPT !.eofReads = @ + 1], "completed"))
           \/ \E size \in 1..Min(ResponseBufSize, Len(r.response) - r.rpos) :
                 WriteRaw(w, [r EXCEPT !.rpos = @ + size],
                          SubSeq(r.response, r.rpos + 1, r.rpos + size), "forwardRest")

\* The writeRaw calls with the Content-Length always that of the message.
SpawnExceptionResponseLengthOfWhat(e) ==
    << <<"HTTP/1.1 500 Internal Server Error", CRLF>>,
       <<"Status: 500 Internal Server Error", CRLF>>,
       <<"Connection: close", CRLF>>,
       <<"Content-Type: text/html; charset=utf-8", CRLF>>,
       <<"Content-Length: ">> \o toString(Len(e.what)) \o <<CRLF>>,
       <<CRLF>>,
       IF e.hasErrorPage THEN e.errorPage ELSE e.what >>

\* The writeRaw calls of handleSpawnException, in order.
SpawnExceptionResponse(e) ==
    << <<"HTTP/1.1 500 Internal Server Error", CRLF>>,
       <<"Status: 500 Internal Server Error", CRLF>>,
       <<"Connection: close", CRLF>>,
       <<"Content-Type: text/html; charset=utf-8", CRLF>> >>
    \o IF e.hasErrorPage
       THEN << <<"Content-Length: ">> \o toString(Len(e.errorPage)) \o <<CRLF>>,
               <<CRLF>>,
               e.errorPage >>
       ELSE << <<"Content-Length: ">> \o toString(Len(e.what)) \o <<CRLF>>,
               <<CRLF>>,
               e.what >>

\* handleSpawnException, then handleRequest's return false.
handleSpawnException(w) ==
    LET t == client[w]
        r == [t.req EXCEPT !.fd = UseFileDescriptor(@)]
        chunks == SpawnExceptionResponse(r.spawnException)
    IN  /\ Running
        /\ t.pc = "spawnException"
        /\ \/ Set(w, Return(t, [r EXCEPT !.out = Flatten(chunks)], "spawnException"))
           \/ \E k \in 1..Len(chunks) : \E part \in PartialWrites(chunks[k]) :
                 Throw(w, [r EXCEPT !.out = Flatten(SubSeq(chunks, 1, k - 1)) \o part],
                       "SystemException")

\* The end of an iteration of threadMain's loop: fd goes out of scope.
endIteration(w) ==
    LET t == client[w]
    IN  /\ Running
        /\ t.pc = "handled"
        /\ Set(w, [t EXCEPT !.pc = "accept",
                            !.req = [NoRequest EXCEPT !.fd = DestroyFileDescriptor(t.req.fd)]])

\* The steps of handleRequest after the connection is accepted.
handleRequest(w, in) ==
    \/ readAndCheckPassword(w)
    \/ readAndParseRequestHeaders(w)
    \/ poolGet(w, in.responses, in.spawnExceptions)
    \/ sendHeaders(w)
    \/ sendRequestBody(w)
    \/ readBody(w)
    \/ shutdownWriter(w)
    \/ forwardStatus(w)
    \/ forwardRest(w)
    \/ handleSpawnException(w)

threadMain(w, in) ==
    \/ acceptConnection(w, in.streams)
    \/ acceptFails(w)
    \/ threadInterrupted(w)
    \/ handleRequest(w, in)
    \/ endIteration(w)

(***************************************************************************)
(* The main thread: main(), Server::Server, Server::start, ~Server.        *)
(***************************************************************************)
\* An exception caught by main's catch clauses: return 1.
MainReturns1 ==
    /\ mainPc' = "returned"
    /\ exitCode' = 1

\* receivePassword without the check of readRaw's result: what was read
\* is the password.
receivePasswordUnchecked ==
    /\ Running
    /\ mainPc = "receivePassword"
    /\ password' = adminIn
    /\ mainPc' = "Server"
    /\ UNCHANGED <<exitCode, abortCause, maxPoolSize, adminIn, adminSignal, pool,
                   serverSocket, listenFailure, closes, numberOfThreads, clients, joining,
                   connections, client>>

\* receivePassword(adminPipe)
receivePassword ==
    LET rd == ReadRaw(adminIn, 0, HELPER_SERVER_PASSWORD_SIZE)
    IN  /\ Running
        /\ mainPc = "receivePassword"
        /\ IF rd.ok
           THEN /\ password' = rd.data
                /\ mainPc' = "Server"
                /\ UNCHANGED exitCode
           ELSE /\ MainReturns1                       \* IOException
                /\ UNCHANGED password
        /\ UNCHANGED <<abortCause, maxPoolSize, adminIn, adminSignal, pool, serverSocket,
                       listenFailure, closes, numberOfThreads, clients, joining,
                       connections, client>>

\* One thread for each slot of the pool.
NumberOfThreadsOnePerSlot(size) == size

\* numberOfThreads = maxPoolSize * 4
NumberOfThreads(size) == size * ThreadsPerPoolSlot

\* Server::Server up to startListening(): the thread count and the pool.
\* Creating the temp dir or the pool may throw.
Server ==
    /\ Running
    /\ mainPc = "Server"
    /\ numberOfThreads' = NumberOfThreads(maxPoolSize)
    /\ \/ /\ pool' = "alive"
          /\ mainPc' = "startListening"
          /\ UNCHANGED exitCode
       \/ /\ MainReturns1
          /\ UNCHANGED pool
    /\ UNCHANGED <<abortCause, maxPoolSize, adminIn, adminSignal, password, serverSocket,
                   listenFailure, closes, clients, joining, connections, client>>

\* A constructor that goes on to start() with startListening() left out.
startListeningLeftOut ==
    /\ Running
    /\ mainPc = "startListening"
    /\ mainPc' = "start"
    /\ UNCHANGED <<exitCode, abortCause, maxPoolSize, adminIn, adminSignal, password, pool,
                   serverSocket, listenFailure, closes, numberOfThreads, clients, joining,
                   connections, client>>

\* The system calls of startListening whose failure makes it throw.
StartListeningThrows(failed) == failed \in {"socket", "bind", "listen"}

\* Server::startListening; failed is the system call that fails, if any.
\* A throw leaves the constructor: ~Server does not run, the pool member
\* is destroyed, main returns 1.
startListening ==
    /\ Running
    /\ mainPc = "startListening"
    /\ \E failed \in {"socket", "bind", "listen", "chmod", "none"} :
          /\ listenFailure' = failed
          /\ IF StartListeningThrows(failed)
             THEN /\ MainReturns1
                  /\ pool' = "destroyed"
                  /\ serverSocket' = IF failed = "socket" THEN "none" ELSE "closed"
                  /\ closes' = IF failed = "socket" THEN closes
                               ELSE [closes EXCEPT !.serverSocket = @ + 1]
             ELSE /\ mainPc' = "start"
                  /\ serverSocket' = "listening"
                  /\ UNCHANGED <<exitCode, pool, closes>>
    /\ UNCHANGED <<abortCause, maxPoolSize, adminIn, adminSignal, password,
                   numberOfThreads, clients, joining, connections, client>>

\* One iteration of the loop of startClientHandlerThreads: Client i + 1
\* is constructed and its thread started.
startClientHandlerThreads ==
    LET i == Cardinality(clients)
    IN  /\ Running
        /\ mainPc = "start"
        /\ i < numberOfThreads
        /\ clients' = clients \cup {i + 1}
        /\ client' = [client EXCEPT ![i + 1] =
                         [@ EXCEPT !.pc = "accept", !.number = i + 1,
                                   !.password = password,
                                   !.serverSocket = serverSocket,
                                   !.pool = pool]]
        /\ UNCHANGED <<mainPc, exitCode, abortCause, maxPoolSize, adminIn, adminSignal,
                       password, pool, serverSocket, listenFailure, closes, numberOfThreads,
                       joining, connections>>

\* The parent writes a byte to the admin pipe or closes it, or the read on
\* it is going to fail.
adminPipeSignal ==
    /\ Running
    /\ mainPc # "receivePassword"
    /\ adminSignal = "none"
    /\ adminSignal' \in {"byte", "eof", "error"}
    /\ UNCHANGED <<mainVars, abortCause, connections, client>>

\* Server::start after the threads are started: syscalls::read(adminPipe,
\* &buf, 1) returns; its result is not looked at.
start ==
    /\ Running
    /\ mainPc = "start"
    /\ Cardinality(clients) = numberOfThreads
    /\ adminSignal # "none"
    /\ mainPc' = "~Server"
    /\ UNCHANGED <<exitCode, abortCause, maxPoolSize, adminIn, adminSignal, password, pool,
                   serverSocket, listenFailure, closes, numberOfThreads, clients, joining,
                   connections, client>>

\* ~Server, clients.clear(): the set's elements are destroyed one after
\* the other, here in the order of their numbers.  ~Client begins:
\* thr->interrupt_and_join() requests the interruption.
interruptClient(w) ==
    /\ Running
    /\ mainPc = "~Server"
    /\ joining = 0
    /\ w \in clients
    /\ \A v \in clients : w <= v
    /\ joining' = w
    /\ client' = [client EXCEPT ![w].interrupted = TRUE]
    /\ UNCHANGED <<mainPc, exitCode, abortCause, maxPoolSize, adminIn, adminSignal,
                   password, pool, serverSocket, listenFailure, closes, numberOfThreads,
                   clients, connections>>

\* interrupt_and_join returns when the thread has ended; delete thr.
joinClient(w) ==
    /\ Running
    /\ mainPc = "~Server"
    /\ joining = w
    /\ client[w].pc = "exited"
    /\ joining' = 0
    /\ clients' = clients \ {w}
    /\ UNCHANGED <<mainPc, exitCode, abortCause, maxPoolSize, adminIn, adminSignal,
                   password, pool, serverSocket, listenFailure, closes, numberOfThreads,
                   connections, client>>

\* ~Server closing the two handles without clients.clear() before.
closeHandlesFirst ==
    /\ Running
    /\ mainPc = "~Server"
    /\ mainPc' = "closed"
    /\ serverSocket' = "closed"
    /\ closes' = [serverSocket |-> closes.serverSocket + 1,
                  adminPipe |-> closes.adminPipe + 1]
    /\ UNCHANGED <<exitCode, abortCause, maxPoolSize, adminIn, adminSignal, password, pool,
                   listenFailure, numberOfThreads, clients, joining, connections, client>>

\* ~Server after clients.clear(): close(serverSocket), close(adminPipe).
closeHandles ==
    /\ Running
    /\ mainPc = "~Server"
    /\ joining = 0
    /\ clients = {}
    /\ mainPc' = "closed"
    /\ serverSocket' = "closed"
    /\ closes' = [serverSocket |-> closes.serverSocket + 1,
                  adminPipe |-> closes.adminPipe + 1]
    /\ UNCHANGED <<exitCode, abortCause, maxPoolSize, adminIn, adminSignal, password, pool,
                   listenFailure, numberOfThreads, clients, joining, connections, client>>

\* The Server's members are destroyed, the pool with them; main returns 0.
mainReturns ==
    /\ Running
    /\ mainPc = "closed"
    /\ pool' = "destroyed"
    /\ mainPc' = "returned"
    /\ exitCode' = 0
    /\ UNCHANGED <<abortCause, maxPoolSize, adminIn, adminSignal, password, serverSocket,
                   listenFailure, closes, numberOfThreads, clients, joining, connections,
                   client>>

main ==
    \/ receivePassword
    \/ Server
    \/ startListening
    \/ startClientHandlerThreads
    \/ start
    \/ \E w \in ClientNumbers : interruptClient(w)
    \/ \E w \in ClientNumbers : joinClient(w)
    \/ closeHandles
    \/ mainReturns

(***************************************************************************)
(* The specification.                                                      *)
(***************************************************************************)
Init ==
    /\ mainPc = "receivePassword"
    /\ exitCode = -1
    /\ abortCause = "none"
    /\ maxPoolSize \in PoolSizeArgs
    /\ adminIn \in AdminInputs
    /\ adminSignal = "none"
    /\ password = <<>>
    /\ pool = "none"
    /\ serverSocket = "none"
    /\ listenFailure = "none"
    /\ closes = [serverSocket |-> 0, adminPipe |-> 0]
    /\ numberOfThreads = 0
    /\ clients = {}
    /\ joining = 0
    /\ connections = {}
    /\ client = [w \in ClientNumbers |-> NoThread]

\* The whole process: startup, the Client threads serving, shutdown.
Next ==
    \/ main
    \/ adminPipeSignal
    \/ \E w \in ClientNumbers : threadMain(w, ProcessInputs)

Spec == Init /\ [][Next]_vars

\* Startup and then one Client thread serving, with every input: the
\* behaviours of the process in which the parent does not signal shutdown
\* and the connections arrive at Client 1.
NextRequest ==
    \/ receivePassword
    \/ Server
    \/ startListening
    \/ startClientHandlerThreads
    \/ acceptConnection(1, RequestInputs.streams)
    \/ acceptFails(1)
    \/ handleRequest(1, RequestInputs)
    \/ endIteration(1)

SpecRequest == Init /\ [][NextRequest]_vars

\* Scheduling: the main thread runs; a thread whose interruption is
\* requested leaves its blocking call (interrupt_and_join repeats the
\* request until the thread has ended); a thread at a step that does not
\* block takes it.  A blocking call need not return otherwise.
Fairness ==
    /\ WF_vars(main)
    /\ \A w \in ClientNumbers :
          /\ WF_vars(threadInterrupted(w))
          /\ WF_vars(shutdownWriter(w))
          /\ WF_vars(endIteration(w))

FairSpec == Spec /\ Fairness

(***************************************************************************)
(* Properties.                                                             *)
(***************************************************************************)
\* The positions of threadMain at which a connection is being handled.
InRequest ==
    {"password", "headers", "checkout", "sendHeaders", "sendRequestBody", "readBody",
     "shutdownWriter", "forwardStatus", "forwardRest", "spawnException", "handled"}

\* C1: a failed read or write while a connection is handled only ends that
\* connection: the process is never aborted because of it, and a Client
\* thread leaves its loop only when it is interrupted.
C1_FailuresNeverEscape ==
    /\ abortCause \in {"none", "accept"}
    /\ \A w \in ClientNumbers : client[w].pc = "exited" => client[w].interrupted

\* Whether the stream begins with the secret.
SendsSecret(r) ==
    /\ Len(r.in) >= HELPER_SERVER_PASSWORD_SIZE
    /\ Take(r.in, HELPER_SERVER_PASSWORD_SIZE) = password

C2_Gate(t) ==
    LET r == t.req
    IN  /\ (t.pc \in InRequest \ {"password", "handled"}) => SendsSecret(r)
        /\ (t.pc = "handled" /\ r.result # "badPassword") => SendsSecret(r)
        /\ r.result = "badPassword" =>
              /\ t.pc = "handled"
              /\ ~SendsSecret(r)
              /\ r.pos = Min(HELPER_SERVER_PASSWORD_SIZE, Len(r.in))
              /\ r.parser = ScgiRequestParser
              /\ r.out = <<>>
              /\ r.poolGets = 0

\* C2: a connection whose first HELPER_SERVER_PASSWORD_SIZE bytes are the
\* secret goes on to the header parsing; any other, and one that ends
\* before that many bytes, is handled with no further read, no write and
\* no pool->get, and its next step is the close of the connection.
C2_AuthenticationGate ==
    [][\A w \in ClientNumbers :
          /\ C2_Gate(client'[w])
          /\ (client[w].pc = "password" /\ client'[w].pc \notin {"password", "aborted"}) =>
                IF SendsSecret(client[w].req)
                THEN client'[w].pc = "headers"
                ELSE client'[w].pc = "handled" /\ client'[w].req.result = "badPassword"
          /\ (client[w].req.result = "badPassword" /\ client'[w] # client[w]) =>
                /\ client'[w].pc = "accept"
                /\ client'[w].req.fd.refs = 0
                /\ client'[w].req.fd.closes = 1]_vars

C2_Rejected ==
    \E w \in ClientNumbers :
        /\ client[w].req.result = "badPassword"
        /\ Take(client[w].req.in, HELPER_SERVER_PASSWORD_SIZE) = WrongLastByte
        /\ Len(client[w].req.in) > HELPER_SERVER_PASSWORD_SIZE

\* The client's bytes after the frame's comma: the partial body and what
\* follows it on the connection.
ClientBody(r) == Drop(r.in, r.frameEnd)

\* sendRequestBody has returned normally.
BodySent(t) ==
    \/ t.pc \in {"shutdownWriter", "forwardStatus", "forwardRest"}
    \/ t.pc = "handled" /\ t.req.result = "completed"

C3_Body(t) ==
    LET r  == t.req
        cl == r.contentLength
    IN  Len(r.partialRequestBody) <= cl =>
           /\ t.pc = "readBody" \/ BodySent(t) =>
                 /\ r.sentBody = r.partialRequestBody
                        \o SubSeq(r.in, r.frameEnd + Len(r.partialRequestBody) + 1, r.pos)
                 /\ Len(r.sentBody) <= cl
           /\ BodySent(t) =>
                 /\ r.sentBody = Take(ClientBody(r), cl)
                 /\ Len(r.sentBody) < cl => r.pos = Len(r.in)
           /\ IsPrefix(r.sentBody, Take(ClientBody(r), cl))

\* C3: with a partial body no longer than CONTENT_LENGTH, the body bytes
\* the session gets are the partial body followed by the bytes read from
\* the client after it, never more than CONTENT_LENGTH of them, and fewer
\* only if the client's stream ended.
C3_BodyForwarding == \A w \in ClientNumbers : C3_Body(client[w])

C3_PartialThenRead ==
    \E w \in ClientNumbers :
        /\ client[w].pc = "shutdownWriter"
        /\ Len(client[w].req.partialRequestBody) = 1
        /\ client[w].req.contentLength = 2
        /\ client[w].req.sentBody = <<"b1", "b2">>
        /\ Len(ClientBody(client[w].req)) = 3

\* The status line the extractor finds in a whole response.
ResponseStatusLine(response) == ExtractorFeed(HttpStatusExtractor, response).statusLine

\* "HTTP/1.1 " and the status line, then the backend's bytes.
ForwardedResponse(response) ==
    <<"HTTP/1.1 ">> \o ResponseStatusLine(response) \o response

\* C4 as stated: after a request that ran to its end the client has
\* received "HTTP/1.1 ", the status line and then every byte the backend
\* sent, whatever the backend sent.
C4_ResponseForwardedAlways ==
    \A w \in ClientNumbers :
        client[w].req.result = "completed" =>
            client[w].req.out = ForwardedResponse(client[w].req.response)

\* C4: when the backend's response holds the end of its header block, the
\* client receives "HTTP/1.1 ", the status line and then every byte the
\* backend sent, in order, unchanged, however the reads split the
\* response; a response that ends before the end of its header block is
\* not forwarded: the client receives nothing.
C4_ResponseForwarded ==
    \A w \in ClientNumbers :
        LET t == client[w]
            r == t.req
        IN  /\ t.pc = "forwardStatus" => r.out = <<>>
            /\ t.pc = "forwardRest" =>
                  r.out = <<"HTTP/1.1 ">> \o ResponseStatusLine(r.response)
                              \o Take(r.response, r.rpos)
            /\ r.result = "completed" =>
                  IF HasHeaderEnd(r.response)
                  THEN r.out = ForwardedResponse(r.response)
                  ELSE r.out = <<>>

C4_SplitResponseForwarded ==
    \E w \in ClientNumbers :
        /\ client[w].req.result = "completed"
        /\ Len(client[w].req.response) > ResponseBufSize
        /\ HasHeaderEnd(client[w].req.response)
        /\ ResponseStatusLine(client[w].req.response) # HttpStatusExtractor.statusLine
        /\ client[w].req.out = ForwardedResponse(client[w].req.response)

\* The 500 response for a spawn failure: the fixed header lines, the
\* byte length of the body in decimal, and the body, which is the error
\* page if there is one and the message otherwise.
InternalServerError(e) ==
    LET body == IF e.hasErrorPage THEN e.errorPage ELSE e.what
    IN  <<"HTTP/1.1 500 Internal Server Error", CRLF,
          "Status: 500 Internal Server Error", CRLF,
          "Connection: close", CRLF,
          "Content-Type: text/html; charset=utf-8", CRLF,
          "Content-Length: ">> \o toString(Len(body)) \o <<CRLF, CRLF>> \o body

\* C5: when pool->get fails with a SpawnException the client receives
\* exactly the 500 response for it, nothing is sent to any session, and
\* the thread is left to close the connection and accept the next one.
C5_SpawnFailure ==
    \A w \in ClientNumbers :
        LET t == client[w]
            r == t.req
        IN  /\ t.pc = "spawnException" =>
                  /\ r.spawnException \in RequestInputs.spawnExceptions
                  /\ r.out = <<>>
            /\ r.spawnException # NoSpawnException =>
                  /\ t.pc \in {"spawnException", "handled"}
                  /\ r.poolGets = 1
                  /\ r.session = "none"
                  /\ r.sessionOps = <<>>
                  /\ r.sentHeaders = <<>>
                  /\ r.sentBody = <<>>
                  /\ IsPrefix(r.out, InternalServerError(r.spawnException))
            /\ r.result = "spawnException" =>
                  /\ t.pc = "handled"
                  /\ r.spawnException # NoSpawnException
                  /\ r.out = InternalServerError(r.spawnException)

C5_ErrorPageSent ==
    \E w \in ClientNumbers :
        /\ client[w].req.result = "spawnException"
        /\ client[w].req.spawnException.hasErrorPage
        /\ Len(client[w].req.spawnException.errorPage)
              # Len(client[w].req.spawnException.what)
        /\ client[w].req.out = InternalServerError(client[w].req.spawnException)

\* The frame was parsed to its end and carries DOCUMENT_ROOT.
FrameAccepted(r) ==
    /\ r.parser.state = "DONE"
    /\ ParserHasHeader(r.parser, "DOCUMENT_ROOT")

\* C6: a request whose frame the parser did not accept, or whose frame
\* has no DOCUMENT_ROOT, ends with no pool->get and nothing written to the
\* client, and the thread is left to close the connection and go on;
\* pool->get is reached only with an accepted frame.
C6_BadFrameRejected ==
    \A w \in ClientNumbers :
        LET t == client[w]
            r == t.req
        IN  /\ r.result \in {"invalidHeader", "noDocumentRoot"} =>
                  /\ t.pc = "handled"
                  /\ ~FrameAccepted(r)
                  /\ r.poolGets = 0
                  /\ r.session = "none"
                  /\ r.out = <<>>
            /\ (t.pc \in InRequest \ {"password", "headers", "handled"} \/ r.poolGets > 0) =>
                  FrameAccepted(r)
            /\ (t.pc = "handled" /\ r.result # "badPassword" /\ ~FrameAccepted(r)) =>
                  /\ r.result = IF r.parser.state # "DONE" THEN "invalidHeader"
                                ELSE "noDocumentRoot"
                  /\ r.poolGets = 0

C6_NoDocumentRoot ==
    \E w \in ClientNumbers :
        /\ client[w].req.result = "noDocumentRoot"
        /\ client[w].req.parser.state = "DONE"
        /\ client[w].req.pos > HELPER_SERVER_PASSWORD_SIZE

\* C7: the fd of an accepted connection is closed exactly once, when the
\* iteration of threadMain that accepted it ends, however it ends; it is
\* open while the connection is handled and never used after its close.
C7_ClosedExactlyOnce ==
    \A w \in ClientNumbers :
        LET t  == client[w]
            fd == t.req.fd
        IN  /\ ~fd.usedClosed
            /\ fd.closes <= 1
            /\ fd.closes > 0 => fd.refs = 0
            /\ t.pc \in InRequest => fd.valid /\ fd.refs = 1 /\ fd.closes = 0
            /\ (t.pc \in {"accept", "exited", "aborted"} /\ fd.valid) =>
                  fd.refs = 0 /\ fd.closes = 1

C7_ClosedOnInterruption ==
    \E w \in ClientNumbers :
        /\ client[w].pc = "exited"
        /\ client[w].req.fd.valid
        /\ client[w].req.fd.closes = 1
        /\ client[w].req.fd.refs = 0

\* The parent has written a byte to the admin pipe or closed it while the
\* main thread, all Client threads started, reads from it.
ShutdownRequested ==
    /\ Running
    /\ mainPc = "start"
    /\ Cardinality(clients) = numberOfThreads
    /\ adminSignal \in {"byte", "eof"}

\* C8: once the parent has signalled shutdown on the admin pipe, whatever
\* the Client threads are doing, they all leave their loops and are
\* joined and the process exits with code 0.  (A failing accept(), which
\* threadMain answers with abort(), is set aside.)
C8_GracefulShutdown ==
    ShutdownRequested ~> (exitCode = 0 \/ abortCause = "accept")

\* C9: a failure of socket, bind, listen or chmod in startListening ends
\* the startup: no Client thread is started, no connection is accepted
\* and the process exits with code 1.
C9_ListenFailureAbortsStartup ==
    listenFailure # "none" =>
        /\ exitCode = 1
        /\ clients = {}
        /\ connections = {}
        /\ \A w \in ClientNumbers : client[w].pc = "none"

\* C10: the process exits with code 0 only after the read on the admin
\* pipe, the Client threads started, returned a byte or end-of-file.
C10_ExitZeroOnlyOnSignal ==
    exitCode = 0 =>
        /\ adminSignal \in {"byte", "eof"}
        /\ numberOfThreads = maxPoolSize * ThreadsPerPoolSlot
        /\ listenFailure \notin {"socket", "bind", "listen"}

\* The loop of startClientHandlerThreads has ended and the main thread is
\* in Server::start, at the read on the admin pipe.
Serving ==
    /\ Running
    /\ mainPc = "start"
    /\ Cardinality(clients) >= numberOfThreads

\* C11: while the Server serves, its clients are the Client threads
\* numbered 1 to 4 * maxPoolSize, every one of them running, constructed
\* with the Server's password, its listening socket and its pool.
C11_FourThreadsPerPoolSlot ==
    Serving =>
        /\ clients = 1..(4 * maxPoolSize)
        /\ Len(password) = HELPER_SERVER_PASSWORD_SIZE
        /\ serverSocket = "listening"
        /\ pool = "alive"
        /\ \A w \in ClientNumbers :
              IF w \in clients
              THEN /\ client[w].pc \in InRequest \cup {"accept"}
                   /\ client[w].number = w
                   /\ client[w].password = password
                   /\ client[w].serverSocket = serverSocket
                   /\ client[w].pool = pool
              ELSE client[w].pc = "none"

C11_ServingMidRequest ==
    /\ Serving
    /\ maxPoolSize = 1
    /\ Cardinality(clients) = 4
    /\ \E w \in clients : client[w].pc = "forwardRest"

\* C12: when the admin pipe ends before HELPER_SERVER_PASSWORD_SIZE
\* bytes, main returns 1 with no pool created, no socket bound and no
\* Client thread started; a Server, whenever there is one, holds a
\* password of exactly that size, the first bytes of the admin pipe.
C12_ShortPasswordIsFatal ==
    /\ Len(adminIn) < HELPER_SERVER_PASSWORD_SIZE =>
          /\ mainPc \in {"receivePassword", "returned"}
          /\ mainPc = "returned" => exitCode = 1
          /\ exitCode # 0
          /\ password = <<>>
          /\ pool = "none"
          /\ serverSocket = "none"
          /\ clients = {}
          /\ \A w \in ClientNumbers : client[w].pc = "none"
    /\ (mainPc # "receivePassword" /\ Len(adminIn) >= HELPER_SERVER_PASSWORD_SIZE) =>
          /\ Len(password) = HELPER_SERVER_PASSWORD_SIZE
          /\ password = Take(adminIn, HELPER_SERVER_PASSWORD_SIZE)

C12_ShortPasswordExit ==
    /\ adminIn # <<>>
    /\ Len(adminIn) < HELPER_SERVER_PASSWORD_SIZE
    /\ mainPc = "returned"
    /\ exitCode = 1

\* Client w, at the loop of sendRequestBody, takes bytes from the
\* connection in this step.
ReadsBody(w) ==
    /\ client[w].pc = "readBody"
    /\ client'[w].req.pos > client[w].req.pos

\* C13: after the partial body is sent, the thread is at a read of the
\* loop of sendRequestBody only while fewer than CONTENT_LENGTH bytes
\* have been sent, and a read takes at most min(sizeof(buf),
\* CONTENT_LENGTH - bytes sent) bytes; with a partial body of
\* CONTENT_LENGTH bytes or more the loop is not entered.
C13_BodyReadsBounded ==
    [][\A w \in ClientNumbers :
          LET r == client[w].req
          IN  /\ client[w].pc = "readBody" => r.bytesForwarded < r.contentLength
              /\ ReadsBody(w) =>
                    client'[w].req.pos - r.pos
                        <= Min(RequestBufSize, r.contentLength - r.bytesForwarded)
              /\ (client[w].pc = "sendRequestBody"
                  /\ Len(r.partialRequestBody) >= r.contentLength) =>
                    client'[w].pc # "readBody"]_vars

\* The orders in which one session is used, a repeated operation
\* counted once: with and without a body.
SessionOrders ==
    { <<"sendHeaders", "sendBodyBlock", "shutdownWriter", "read">>,
      <<"sendHeaders", "shutdownWriter", "read">> }

\* The frame's header blob as it stands in the client's stream: the
\* bytes between the first colon after the password and the frame's comma.
ReceivedHeaderBlob(r) ==
    LET colon == CHOOSE i \in (HELPER_SERVER_PASSWORD_SIZE + 1)..r.frameEnd :
                     /\ r.in[i] = ":"
                     /\ \A j \in (HELPER_SERVER_PASSWORD_SIZE + 1)..(i - 1) : r.in[j] # ":"
    IN  SubSeq(r.in, colon + 1, r.frameEnd - 1)

\* C14: a session is used only after the one pool->get of the request
\* and in this order: sendHeaders once, with the header blob as received,
\* then the body blocks, then shutdownWriter, then the reads of the
\* response; once shutdownWriter is done nothing more is sent.
C14_SessionOrder ==
    [][\A w \in ClientNumbers :
          LET r == client[w].req
          IN  /\ \E o \in SessionOrders : IsPrefix(r.sessionOps, o)
              /\ r.sessionOps # <<>> => r.poolGets = 1 /\ r.session # "none"
              /\ Len(r.sentHeaders) <= 1
              /\ r.sentHeaders # <<>> => r.sentHeaders[1] = ReceivedHeaderBlob(r)
              /\ r.sentBody # <<>> => "sendBodyBlock" \in Range(r.sessionOps)
              /\ r.rpos > 0 => "read" \in Range(r.sessionOps)
              /\ ("shutdownWriter" \in Range(r.sessionOps) /\ client'[w].pc # "accept") =>
                    /\ client'[w].req.sentHeaders = r.sentHeaders
                    /\ client'[w].req.sentBody = r.sentBody]_vars

C14_WholeOrderSeen ==
    \E w \in ClientNumbers :
        /\ client[w].req.sessionOps
              = <<"sendHeaders", "sendBodyBlock", "shutdownWriter", "read">>
        /\ client[w].req.result = "completed"
        /\ Len(client[w].req.sentBody) = 2
        /\ Len(client[w].req.partialRequestBody) = 1

\* The Client threads the Server started have all been interrupted and
\* have left threadMain, and the Server holds none of them any more.
AllJoined ==
    /\ clients = {}
    /\ joining = 0
    /\ \A w \in 1..numberOfThreads :
          client[w].pc = "exited" /\ client[w].interrupted

\* C15: after Server::start returns, the listening socket and the admin
\* pipe stay open and the pool alive until every Client thread is
\* interrupted and joined; then the two handles are closed, once each,
\* and then the pool is destroyed.  No thread is at accept() with the
\* listening socket closed, or at pool->get or using a session with the
\* pool destroyed.
C15_ShutdownOrder ==
    /\ closes.serverSocket <= 1
    /\ closes.adminPipe <= 1
    /\ mainPc = "~Server" =>
          /\ serverSocket = "listening"
          /\ closes = [serverSocket |-> 0, adminPipe |-> 0]
          /\ pool = "alive"
    /\ mainPc = "closed" =>
          /\ AllJoined
          /\ closes = [serverSocket |-> 1, adminPipe |-> 1]
          /\ pool = "alive"
    /\ exitCode = 0 =>
          /\ AllJoined
          /\ closes = [serverSocket |-> 1, adminPipe |-> 1]
          /\ pool = "destroyed"
    /\ \A w \in ClientNumbers :
          /\ client[w].pc = "accept" => serverSocket = "listening"
          /\ (client[w].pc = "checkout" \/ client[w].req.session = "open") => pool = "alive"

C15_CleanShutdown ==
    /\ exitCode = 0
    /\ numberOfThreads = 4
    /\ closes = [serverSocket |-> 1, adminPipe |-> 1]
    /\ \E w \in ClientNumbers : client[w].req.session = "released"

\* Client w leaves the loop of threadMain in this step.
LeavesLoop(w) == client[w].pc # "exited" /\ client'[w].pc = "exited"

\* C16: boost::thread_interrupted, thrown at whichever blocking call of a
\* request, is not among the exceptions handleRequest catches and turns
\* into a return: the thread leaves its loop with the connection's fd
\* closed and the session, if one was open, released, and the process is
\* not aborted by it.
C16_InterruptionPropagates ==
    [][\A w \in ClientNumbers :
          /\ client'[w].req.caught # "thread_interrupted"
          /\ LeavesLoop(w) =>
                /\ client[w].interrupted
                /\ client[w].pc \in InRequest \cup {"accept"}
                /\ abortCause' = "none"
                /\ client'[w].req.session # "open"
                /\ client[w].req.session = "open" => client'[w].req.session = "released"
                /\ client[w].req.fd.refs = 1 =>
                      /\ client'[w].req.fd.refs = 0
                      /\ client'[w].req.fd.closes = 1]_vars

C16_InterruptedWithSession ==
    \E w \in ClientNumbers :
        /\ client[w].pc = "exited"
        /\ client[w].req.session = "released"
        /\ client[w].req.fd.closes = 1
        /\ abortCause = "none"

\* C17: the password is read from the admin pipe before the pool is
\* created; the socket is bound and listening before a Client thread is
\* started; all Client threads are started before the read of
\* Server::start on the admin pipe returns.  So a thread at accept() has a
\* listening socket and a thread checking a password has the whole secret.
C17_StartupOrder ==
    [][/\ pool # "none" =>
             /\ Len(password) = HELPER_SERVER_PASSWORD_SIZE
             /\ password = Take(adminIn, HELPER_SERVER_PASSWORD_SIZE)
       /\ serverSocket # "none" => pool # "none"
       /\ \A w \in ClientNumbers :
             client[w].pc \notin {"none", "killed", "aborted"} =>
                /\ client[w].serverSocket = "listening"
                /\ client[w].pool = "alive"
                /\ client[w].password = Take(adminIn, HELPER_SERVER_PASSWORD_SIZE)
                /\ Len(client[w].password) = HELPER_SERVER_PASSWORD_SIZE
       /\ \A w \in ClientNumbers :
             (client[w].pc = "none" /\ client'[w].pc # "none" /\ abortCause' = "none") =>
                /\ serverSocket = "listening"
                /\ mainPc = "start"
       /\ (mainPc = "start" /\ mainPc' # "start") =>
             /\ clients = 1..(4 * maxPoolSize)
             /\ \A w \in clients : client[w].pc # "none"]_vars

C17_AllStartedBeforeRead ==
    /\ mainPc = "~Server"
    /\ clients = 1..4
    /\ joining = 0
    /\ \E w \in clients : client[w].pc = "password"

\* C18: when the client's stream ends in the loop of sendRequestBody
\* before CONTENT_LENGTH bytes are sent, the read's end-of-stream raises
\* nothing: the handler goes on to shutdownWriter with what was sent, and
\* the response is forwarded as it is after a whole body.  (The step's
\* other outcome is the read failing with a kernel error.)
C18_ClientEofDuringBody ==
    [][\A w \in ClientNumbers :
          LET t == client[w]
              r == t.req
              u == client'[w]
          IN  /\ (t.pc = "readBody" /\ Avail(r) = 0 /\ u # t) =>
                    \/ /\ u.pc = "shutdownWriter"
                       /\ u.req.caught = "none"
                       /\ u.req.sentBody = r.sentBody
                       /\ u.req.pos = r.pos
                       /\ u.req.session = "open"
                    \/ /\ u.pc = "handled"
                       /\ u.req.caught = "SystemException"
              /\ (r.result = "completed" /\ r.bytesForwarded < r.contentLength) =>
                    /\ r.pos = Len(r.in)
                    /\ r.sentBody = ClientBody(r)
                    /\ "shutdownWriter" \in Range(r.sessionOps)
                    /\ r.out = IF HasHeaderEnd(r.response)
                               THEN ForwardedResponse(r.response) ELSE <<>>]_vars

C18_ShortBodyCompleted ==
    \E w \in ClientNumbers :
        /\ client[w].req.result = "completed"
        /\ client[w].req.contentLength = 2
        /\ client[w].req.sentBody = <<"b1">>
        /\ client[w].req.out # <<>>

\* The positions in what the client received of the "HTTP/1.1 " that
\* begins the status line forwardResponse writes.
StatusLineStarts(out) == {i \in 1..Len(out) : out[i] = "HTTP/1.1 "}

\* C19: in forwarding a response the handler writes "HTTP/1.1 " and the
\* status line at most once, as the first bytes the client receives;
\* once the extractor has reported the status line it is not fed again,
\* and each later chunk read from the backend is what is written to the
\* client, unchanged.
C19_StatusLineOnce ==
    [][\A w \in ClientNumbers :
          LET t == client[w]
              r == t.req
              u == client'[w]
          IN  /\ r.session # "none" =>
                    /\ StatusLineStarts(r.out) \subseteq {1}
                    /\ r.out # <<>> =>
                          /\ r.ex.fullHeaderReceived
                          /\ IsPrefix(StatusLine(r.ex), r.out)
                             \/ IsPrefix(r.out, StatusLine(r.ex))
              /\ (r.ex.fullHeaderReceived /\ u.pc # "accept") => u.req.ex = r.ex
              /\ (t.pc = "forwardRest" /\ u # t) =>
                    LET chunk == SubSeq(r.response, r.rpos + 1, u.req.rpos)
                    IN  IF u.pc = "forwardRest"
                        THEN u.req.out = r.out \o chunk
                        ELSE /\ u.pc = "handled"
                             /\ \E k \in 0..Len(chunk) : u.req.out = r.out \o Take(chunk, k)]_vars

C19_ChunksAfterStatus ==
    \E w \in ClientNumbers :
        /\ client[w].req.result = "completed"
        /\ StatusLineStarts(client[w].req.out) = {1}
        /\ client[w].req.rpos > Len(client[w].req.ex.buffer)
        /\ client[w].req.ex.statusLine = <<"404 Not Found", CRLF>>

\* C20: what the session gets does not depend on how the client's bytes
\* are split into reads.  It is what it gets when the bytes arrive one
\* per read: the header blob between the colon and the comma, once, and
\* the first CONTENT_LENGTH bytes that follow the comma; the partial body
\* is the part of the last header read that follows the comma.
C20_SplitIndependence ==
    \A w \in ClientNumbers :
        LET t == client[w]
            r == t.req
        IN  /\ t.pc \in {"checkout", "sendHeaders", "sendRequestBody"} =>
                  /\ r.in[r.frameEnd] = ","
                  /\ r.pos = r.frameEnd + Len(r.partialRequestBody)
                  /\ r.partialRequestBody = SubSeq(r.in, r.frameEnd + 1, r.pos)
            /\ r.sentHeaders # <<>> => r.sentHeaders = <<ReceivedHeaderBlob(r)>>
            /\ BodySent(t) => r.sentBody = Take(ClientBody(r), r.contentLength)

\* C21: when the backend's stream ends before the extractor has reported
\* a status line, the client receives nothing, neither a status line nor
\* the bytes read so far; forwardResponse returns normally, and the read
\* that returned end-of-stream is the last read on the backend's stream.
\* (The step's other outcome is the read failing with a kernel error.)
C21_BackendEofBeforeStatus ==
    [][\A w \in ClientNumbers :
          LET t == client[w]
              r == t.req
              u == client'[w]
          IN  /\ r.eofReads <= 1
              /\ t.pc = "forwardStatus" =>
                    /\ ~r.ex.fullHeaderReceived
                    /\ r.out = <<>>
                    /\ r.eofReads = 0
              /\ (t.pc = "forwardStatus" /\ r.rpos = Len(r.response) /\ u # t) =>
                    /\ u.pc = "handled"
                    /\ u.req.out = <<>>
                    /\ u.req.rpos = r.rpos
                    /\ u.req.session = "released"
                    /\ \/ /\ u.req.result = "completed"
                          /\ u.req.caught = "none"
                          /\ u.req.eofReads = 1
                       \/ /\ u.req.caught = "SystemException"
                          /\ u.req.eofReads = 0
              /\ (r.result = "completed" /\ ~r.ex.fullHeaderReceived) =>
                    /\ r.out = <<>>
                    /\ r.ex.buffer = r.response
                    /\ ~HasHeaderEnd(r.response)]_vars

C21_BytesReadNotForwarded ==
    \E w \in ClientNumbers :
        /\ client[w].req.result = "completed"
        /\ ~client[w].req.ex.fullHeaderReceived
        /\ client[w].req.ex.buffer # <<>>
        /\ client[w].req.out = <<>>
        /\ client[w].req.eofReads = 1

=============================================================================
